---- MODULE Spec2Model ----
(***************************************************************************)
(* State-machine model of the TLE acquisition and ingestion pipeline.      *)
(*                                                                         *)
(*   backend/TLE_Fetch.py   login, fetch_tle_data, split_and_save_tle and  *)
(*                          the module-level batch loop  (specification    *)
(*                          Spec)                                          *)
(*   backend/data_input.py  parse_tle_file, chunked_insert,                *)
(*                          insert_tle_file_to_db,                         *)
(*                          batch_insert_tle_from_directory and __main__   *)
(*                          (specification SpecIngest)                     *)
(*                                                                         *)
(* Every HTTP call of the fetcher is one step whose outcome (a response or *)
(* a raised exception) is chosen by the environment.  Every statement sent *)
(* to the store by an ingestion worker is one step (one transaction).      *)
(***************************************************************************)
EXTENDS Integers, Sequences, FiniteSets, TLC

(***************************************************************************)
(* Bounds of the model.                                                    *)
(***************************************************************************)
\* number of catalog object ids in GpData.csv (all_norads = 1..NumIds)
NumIds == 3
\* number of successive executions of TLE_Fetch.py that are followed
MaxRuns == 2
\* BATCH_SIZE is 15 in the source (TLE_Fetch.py:210); scaled down with NumIds
BATCH_SIZE == 2
\* chunk_size is 100 in the source (data_input.py:182); scaled down with the
\* length of the files
chunk_size == 2
\* max_workers is 10 in the source (data_input.py:216); scaled down with the
\* number of files
max_workers == 2

(***************************************************************************)
(* Program constants.                                                      *)
(***************************************************************************)
\* TLE_Fetch.py:122  def fetch_tle_data(norad_list, retry_attempts=5)
retry_attempts == 5
\* TLE_Fetch.py:211
WAIT_TIME == 60
\* data_input.py:148  def chunked_insert(records, chunk_size=100, max_retries=3, retry_delay=5)
max_retries == 3
retry_delay == 5

VARIABLES
    \* ---- TLE_Fetch.py ----
    pc,             \* control point of the process
    run,            \* which execution of the script this is (1..MaxRuns)
    exitStatus,     \* -1 while running, else the process's exit status
    cookies,        \* session.cookies: 0 = none, else a session token
    cookieFile,     \* COOKIE_FILE: 0 = absent, else the token pickled in it
    active_norads,  \* membership set read by get_norad_ids()
    files,          \* the two partitions: files[dir][id]
    idx,            \* loop variable i of the batch loop (0-based offset)
    attempt,        \* loop variable of fetch_tle_data (0-based)
    result,         \* value returned by fetch_tle_data (tle_data)
    http,           \* the HTTP exchange made by the last step, if any
    wrote,          \* the files the last step opened for writing: <<dir, id>>
    slept,          \* seconds passed to time.sleep by the last step (0: none)
    log,            \* the message printed by the last step that tells the path
    callReqs,       \* batch requests issued so far by this fetch_tle_data call
    callRelogins,   \* login(force=True) calls made so far by this call
    firstAuth,      \* the first response of attempt 1 of this call was 401/403
                    \* or carried "alert-danger"
    \* ---- data_input.py ----
    mpc,            \* control point of the main thread
    irun,           \* which execution of data_input.py this is
    existing_tles,  \* the snapshot returned by fetch_existing_tles()
    store,          \* rows of table starlink_tle
    wpc,            \* per submitted file: control point of its task
    recs,           \* per file: parsed_tles of insert_tle_file_to_db
    ci,             \* per file: loop variable i of chunked_insert
    attempts,       \* per file: attempts of chunked_insert
    sgp4_calls,     \* per file: the pairs sat.sgp4 was called for
    events,         \* per file: what parse_tle_file did, in order: the warning
                    \* about an odd number of lines, then each pair visited
    pre,            \* per file: keys in the store when chunked_insert began
    abandoned,      \* per file: chunks given up ("Failed to insert chunk")
    inserted,       \* per file: chunks whose statement was committed
    stmt,           \* the statement executed by the last step, if any
    wslept          \* seconds passed to time.sleep by the last step (0: none)

fvars == <<pc, run, exitStatus, cookies, cookieFile, active_norads, files, idx,
           attempt, result, http, wrote, slept, log, callReqs, callRelogins,
           firstAuth>>
ivars == <<mpc, irun, existing_tles, store, wpc, recs, ci, attempts, sgp4_calls, events,
           pre, abandoned, inserted, stmt, wslept>>
vars == <<fvars, ivars>>

(***************************************************************************)
(* TLE_Fetch.py : data                                                     *)
(***************************************************************************)
Ids == 1..NumIds
\* norad_list = sorted(all_norads)
norad_list == [k \in 1..NumIds |-> k]
Dirs == {"active", "inactive"}

Min(a, b) == IF a < b THEN a ELSE b

\* A line of TLE text.  m is what the line starts with: "1" for "1 ", "2" for
\* "2 ", "x" for anything else; id is the catalog number field
\* line.split()[1][:5], 0 when line.split() has no second element.
L1(id) == [m |-> "1", id |-> id]
L2(id) == [m |-> "2", id |-> id]
Junk == [m |-> "x", id |-> 0]
\* the line "1 " with nothing after the marker
MarkerOnly == [m |-> "1", id |-> 0]

NoFile == [exists |-> FALSE, content |-> <<>>]

\* batch = norad_list[i:i+BATCH_SIZE]
Batch(i) == SubSeq(norad_list, i + 1, Min(i + BATCH_SIZE, NumIds))

RECURSIVE PairsOf(_)
\* one valid pair per id of the sequence ids, ids in order
PairsOf(ids) ==
    IF ids = <<>> THEN <<>>
    ELSE <<L1(Head(ids)), L2(Head(ids))>> \o PairsOf(Tail(ids))

\* Bodies the catalog API may answer a batch query with: the history of every
\* object of the batch; or the history of the first object only, with a
\* malformed pair before it and an unpaired line after it; or one pair of
\* the first object followed by a pair whose first line is the marker alone.
Texts(batch) ==
    { PairsOf(batch),
      <<Junk, L2(Head(batch))>> \o PairsOf(<<Head(batch), Head(batch)>>)
          \o <<L1(Head(batch))>>,
      PairsOf(<<Head(batch)>>) \o <<MarkerOnly, L2(Head(batch))>> }

\* What get_norad_ids() may return: an object's membership can differ from
\* one execution to the next.
ActiveChoices == {{1}, Ids \ {1}}

Statuses == {200, 204, 401, 403, 429, 500}

\* response.text as: does it contain "Too Many Requests", does it contain
\* "alert-danger", and its lines after strip() (an error page is one line that
\* is not TLE).
Bodies(batch) ==
    { [throttle |-> FALSE, auth |-> FALSE, lines |-> <<>>],
      [throttle |-> TRUE,  auth |-> FALSE, lines |-> <<Junk>>],
      [throttle |-> FALSE, auth |-> TRUE,  lines |-> <<Junk>>] }
    \cup { [throttle |-> FALSE, auth |-> FALSE, lines |-> t] : t \in Texts(batch) }

Responses(batch) ==
    { [kind |-> "resp", status |-> s, throttle |-> b.throttle, auth |-> b.auth,
       lines |-> b.lines] : s \in Statuses, b \in Bodies(batch) }

\* requests.exceptions raised by session.get / session.post
Raised == { [kind |-> k] : k \in {"ConnectionError", "Timeout", "RequestException"} }

NoHttp == [call |-> "none"]
Exchange(call, outcome) == [call |-> call, out |-> outcome]
\* :127-128, :134, :152  a request for tle_url, which names every id of the
\* batch: norad_str = ",".join(norad_list)
BatchExchange(batch, outcome) == [call |-> "batch", out |-> outcome, ids |-> batch]
NoResult == [kind |-> "none"]

\* what a probe or login request is answered with (only the status is read)
Plain(s) == [kind |-> "resp", status |-> s, throttle |-> FALSE, auth |-> FALSE,
             lines |-> <<>>]
PlainStatuses == {200, 401}

(***************************************************************************)
(* TLE_Fetch.py : the decisions of fetch_tle_data                          *)
(***************************************************************************)
\* a throttle test that looks at the status only
IsThrottledStatusOnly(r) == r.status = 429

\* :139  response.status_code == 429 or "Too Many Requests" in response.text
IsThrottled(r) == r.status = 429 \/ r.throttle

\* :144  response.status_code == 204 or len(response.text.strip()) == 0
IsEmpty(r) == r.status = 204 \/ Len(r.lines) = 0

\* :149  "alert-danger" in response.text or response.status_code in [401, 403]
IsAuthFailure(r) == r.auth \/ r.status \in {401, 403}

\* :154  response.status_code == 200 and len(response.text.strip()) > 0
IsSuccess(r) == r.status = 200 /\ Len(r.lines) > 0

\* :156  return response.text.strip()
TextOf(r) == [kind |-> "text", throttle |-> r.throttle, auth |-> r.auth,
              lines |-> r.lines]

\* a backoff computed from the 1-based attempt number
BackoffOneBased(k) == 5 + 2 * (k + 1)

\* :160  time.sleep(5 + 2*attempt)
Backoff(k) == 5 + 2 * k

\* :222  if tle_data:
Truthy(res) == res.kind = "text" /\ Len(res.lines) > 0

(***************************************************************************)
(* TLE_Fetch.py : split_and_save_tle                                       *)
(***************************************************************************)
\* :181-189  the pairs at line positions (2k, 2k+1) whose first line starts
\* with "1 " and whose second line starts with "2 ", in input order
ValidPairs(lines) ==
    LET n == Len(lines) \div 2
        all == [k \in 1..n |-> <<lines[2 * k - 1], lines[2 * k]>>]
    IN SelectSeq(all, LAMBDA p : p[1].m = "1" /\ p[2].m = "2")

\* :188  line1.split()[1] raises IndexError for a pair that passed the test
\* of line 185 and whose first line has no second element
SplitRaises(text) ==
    \E k \in DOMAIN ValidPairs(text.lines) : ValidPairs(text.lines)[k][1].id = 0

\* :188-189  tle_dict[norad_id], norad_id taken from line 1
GroupOf(pairs, id) == SelectSeq(pairs, LAMBDA p : p[1].id = id)

\* :192-193  folder = DEORBITED_DIR if norad_id not in active_norads else ORBIT_DIR
FolderOf(id, active) == IF id \in active THEN "active" ELSE "inactive"

\* :191-196  the files split_and_save_tle opens with open(filename, "w"):
\* one per key of tle_dict, in the folder of its id
Opened(text, active) ==
    IF Len(text.lines) = 0 THEN {}
    ELSE { <<FolderOf(id, active), id>> :
             id \in {i \in Ids : GroupOf(ValidPairs(text.lines), i) # <<>>} }

\* :172-199  the partitions after split_and_save_tle(tle_data, active_norads);
\* open(filename, "w") creates the file or truncates it
SplitAndSave(f, text, active) ==
    [d \in Dirs |-> [id \in Ids |->
        IF <<d, id>> \in Opened(text, active)
        THEN [exists |-> TRUE, content |-> GroupOf(ValidPairs(text.lines), id)]
        ELSE f[d][id]]]

\* :217  os.path.exists(ORBIT_DIR/tle_<id>.txt) or os.path.exists(DEORBITED_DIR/...)
HasFile(f, id) == f["active"][id].exists \/ f["inactive"][id].exists

\* a test that is met as soon as one id of the batch has a file
AnyMaterialized(f, batch) == \E k \in 1..Len(batch) : HasFile(f, batch[k])

\* :217  all(... for norad in batch)
AllMaterialized(f, batch) == \A k \in 1..Len(batch) : HasFile(f, batch[k])

(***************************************************************************)
(* TLE_Fetch.py : the process                                              *)
(*                                                                         *)
(* pc:  "start"    login() is about to probe the saved session  (:202)     *)
(*      "login"    login() is about to post the credentials     (:83)      *)
(*      "..._response"  the request made at the point named has returned   *)
(*                 or raised; the outcome is in http                       *)
(*      "setup"    get_norad_ids(), get_all_from_csv()          (:203-206) *)
(*      "loop"     head of the batch loop                       (:214)     *)
(*      "request"  fetch_tle_data is about to send the request  (:134)     *)
(*      "relogin"  login(force=True) is about to post           (:151,:83) *)
(*      "reissue"  fetch_tle_data is about to re-send           (:152)     *)
(*      "returned" fetch_tle_data has returned to the loop      (:221)     *)
(*      "done"     the script ran to its end                               *)
(*      "exited"   sys.exit, or an exception nobody caught                 *)
(***************************************************************************)
\* the cookie jar after a successful login: a token the jar did not hold
FreshToken(c) == (c % 2) + 1

\* sys.exit(1), and an uncaught exception, end the process with status 1
Exit(code) == pc' = "exited" /\ exitStatus' = code

\* what the claims read of attempt 1's first response (not used by the code)
RawAuth(o) == o.kind = "resp" /\ (o.auth \/ o.status \in {401, 403})

\* :73-78, :53-57, :62  login(force=False): load_cookies(), then the probe
\* request of check_session_valid() returns or raises
ProbeSession ==
    /\ pc = "start"
    /\ cookies' = IF cookieFile # 0 THEN cookieFile ELSE cookies
    /\ \E o \in {Plain(st) : st \in PlainStatuses} \cup Raised :
          http' = Exchange("probe", o)
    /\ pc' = "probe_response"
    /\ slept' = 0 /\ wrote' = {} /\ log' = ""
    /\ UNCHANGED <<run, exitStatus, cookieFile, active_norads, files, idx, attempt,
                   result, callReqs, callRelogins, firstAuth>>
    /\ UNCHANGED ivars

\* :64-66, :78-79  the probe answered 200: login() returns
ProbeValid ==
    /\ pc = "probe_response" /\ http.out.kind = "resp"
    /\ http.out.status = 200
    /\ pc' = "setup"
    /\ http' = NoHttp /\ slept' = 0 /\ wrote' = {} /\ log' = "session_valid"
    /\ UNCHANGED <<run, exitStatus, cookies, cookieFile, active_norads, files, idx,
                   attempt, result, callReqs, callRelogins, firstAuth>>
    /\ UNCHANGED ivars

\* :67-69, :81  the probe answered anything else: go on to log in
ProbeInvalid ==
    /\ pc = "probe_response" /\ http.out.kind = "resp"
    /\ http.out.status # 200
    /\ pc' = "login"
    /\ http' = NoHttp /\ slept' = 0 /\ wrote' = {} /\ log' = "session_expired"
    /\ UNCHANGED <<run, exitStatus, cookies, cookieFile, active_norads, files, idx,
                   attempt, result, callReqs, callRelogins, firstAuth>>
    /\ UNCHANGED ivars

\* an exception raised under login() called at :202: nothing catches it, the
\* interpreter prints the traceback and exits with status 1
Uncaught ==
    /\ http.out.kind \in {"ConnectionError", "Timeout", "RequestException"}
    /\ Exit(1)
    /\ http' = NoHttp /\ slept' = 0 /\ wrote' = {} /\ log' = "traceback"
    /\ UNCHANGED <<run, cookies, cookieFile, active_norads, files, idx, attempt,
                   result, callReqs, callRelogins, firstAuth>>
    /\ UNCHANGED ivars

ProbeRaises == pc = "probe_response" /\ Uncaught

\* :81-83  session.post(LOGIN_URL, data=payload) returns or raises;
\* "login" is login() called at :202, "relogin" is login(force=True) at :151
PostLogin ==
    /\ pc \in {"login", "relogin"}
    /\ \E o \in {Plain(st) : st \in PlainStatuses} \cup Raised :
          http' = Exchange("login", o)
    /\ pc' = IF pc = "login" THEN "login_response" ELSE "relogin_response"
    /\ slept' = 0 /\ wrote' = {} /\ log' = ""
    /\ UNCHANGED <<run, exitStatus, cookies, cookieFile, active_norads, files, idx,
                   attempt, result, callReqs, callRelogins, firstAuth>>
    /\ UNCHANGED ivars

\* :48-51  save_cookies(): the cookie file after pickling the jar c
SaveCookies(c) == c

\* :85-87  the login request answered 200: save_cookies(), login() returns
\* (to :203 from "login_response", to :152 from "relogin_response")
LoginAccepted ==
    /\ pc \in {"login_response", "relogin_response"} /\ http.out.kind = "resp"
    /\ http.out.status = 200
    /\ cookies' = FreshToken(cookies)
    /\ cookieFile' = SaveCookies(cookies')
    /\ pc' = IF pc = "login_response" THEN "setup" ELSE "reissue"
    /\ http' = NoHttp /\ slept' = 0 /\ wrote' = {} /\ log' = "logged_in"
    /\ UNCHANGED <<run, exitStatus, active_norads, files, idx, attempt,
                   result, callReqs, callRelogins, firstAuth>>
    /\ UNCHANGED ivars

\* a rejected forced re-login whose exit the handlers of fetch_tle_data take
\* for a request exception to retry
LoginRejectedCaught ==
    /\ pc \in {"login_response", "relogin_response"} /\ http.out.kind = "resp"
    /\ http.out.status # 200
    /\ IF pc = "login_response"
       THEN Exit(1) /\ log' = "login_failed" /\ UNCHANGED <<attempt, result>>
       ELSE /\ pc' = "request" /\ log' = "connection_error"
            /\ UNCHANGED <<exitStatus, attempt, result>>
    /\ http' = NoHttp /\ slept' = 0 /\ wrote' = {}
    /\ UNCHANGED <<run, cookies, cookieFile, active_norads, files, idx,
                   callReqs, callRelogins, firstAuth>>
    /\ UNCHANGED ivars

\* :88-90  the login request answered anything else: sys.exit(1)
LoginRejected ==
    /\ pc \in {"login_response", "relogin_response"} /\ http.out.kind = "resp"
    /\ http.out.status # 200
    /\ Exit(1)
    /\ http' = NoHttp /\ slept' = 0 /\ wrote' = {} /\ log' = "login_failed"
    /\ UNCHANGED <<run, cookies, cookieFile, active_norads, files, idx, attempt,
                   result, callReqs, callRelogins, firstAuth>>
    /\ UNCHANGED ivars

LoginRaises == pc = "login_response" /\ Uncaught

\* :203-206  the membership set is whatever the satellites table holds now
Setup ==
    /\ pc = "setup"
    /\ \E a \in ActiveChoices : active_norads' = a
    /\ idx' = 0
    /\ pc' = "loop"
    /\ http' = NoHttp /\ slept' = 0 /\ wrote' = {} /\ log' = ""
    /\ UNCHANGED <<run, exitStatus, cookies, cookieFile, files, attempt,
                   result, callReqs, callRelogins, firstAuth>>
    /\ UNCHANGED ivars

(***************************************************************************)
(* TLE_Fetch.py : the module-level batch loop                              *)
(***************************************************************************)
\* :214-219  every id of the batch has a file: pbar.update, continue
LoopSkip ==
    /\ pc = "loop" /\ idx < NumIds
    /\ AllMaterialized(files, Batch(idx))
    /\ idx' = idx + BATCH_SIZE
    /\ http' = NoHttp /\ slept' = 0 /\ wrote' = {} /\ log' = "skip_batch"
    /\ UNCHANGED <<pc, run, exitStatus, cookies, cookieFile, active_norads, files,
                   attempt, result, callReqs, callRelogins, firstAuth>>
    /\ UNCHANGED ivars

\* :214-221, :126  otherwise fetch_tle_data(batch) is entered
LoopFetch ==
    /\ pc = "loop" /\ idx < NumIds
    /\ ~AllMaterialized(files, Batch(idx))
    /\ pc' = "request"
    /\ attempt' = 0 /\ result' = NoResult
    /\ callReqs' = 0 /\ callRelogins' = 0 /\ firstAuth' = FALSE
    /\ http' = NoHttp /\ slept' = 0 /\ wrote' = {} /\ log' = ""
    /\ UNCHANGED <<run, exitStatus, cookies, cookieFile, active_norads, files, idx>>
    /\ UNCHANGED ivars

\* :214  range(0, len(norad_list), BATCH_SIZE) is exhausted: the script ends
LoopEnd ==
    /\ pc = "loop" /\ idx >= NumIds
    /\ pc' = "done" /\ exitStatus' = 0
    /\ http' = NoHttp /\ slept' = 0 /\ wrote' = {} /\ log' = ""
    /\ UNCHANGED <<run, cookies, cookieFile, active_norads, files, idx, attempt,
                   result, callReqs, callRelogins, firstAuth>>
    /\ UNCHANGED ivars

\* a loop body that waits only after a batch that brought data
SaveAndWaitOnlyOnData ==
    /\ pc = "returned"
    /\ ~(Truthy(result) /\ SplitRaises(result))
    /\ files' = IF Truthy(result) THEN SplitAndSave(files, result, active_norads)
                ELSE files
    /\ wrote' = IF Truthy(result) THEN Opened(result, active_norads) ELSE {}
    /\ \E off \in -10..30 : slept' = IF Truthy(result) THEN WAIT_TIME + off ELSE 0
    /\ idx' = idx + BATCH_SIZE
    /\ pc' = "loop"
    /\ http' = NoHttp /\ log' = "waiting"
    /\ attempt' = 0 /\ result' = NoResult
    /\ callReqs' = 0 /\ callRelogins' = 0 /\ firstAuth' = FALSE
    /\ UNCHANGED <<run, exitStatus, cookies, cookieFile, active_norads>>
    /\ UNCHANGED ivars

\* :222-223, :188  split_and_save_tle raises before it has written a file:
\* nothing catches the exception, the interpreter prints the traceback and
\* exits with status 1
SplitCrashes ==
    /\ pc = "returned"
    /\ Truthy(result) /\ SplitRaises(result)
    /\ Exit(1)
    /\ http' = NoHttp /\ slept' = 0 /\ wrote' = {} /\ log' = "traceback"
    /\ UNCHANGED <<run, cookies, cookieFile, active_norads, files, idx, attempt,
                   result, callReqs, callRelogins, firstAuth>>
    /\ UNCHANGED ivars

\* :222-230  the loop body after fetch_tle_data returned
SaveAndWait ==
    /\ pc = "returned"
    /\ ~(Truthy(result) /\ SplitRaises(result))
    /\ files' = IF Truthy(result) THEN SplitAndSave(files, result, active_norads)
                ELSE files
    /\ wrote' = IF Truthy(result) THEN Opened(result, active_norads) ELSE {}
    /\ \E off \in -10..30 : slept' = WAIT_TIME + off
    /\ idx' = idx + BATCH_SIZE
    /\ pc' = "loop"
    /\ http' = NoHttp /\ log' = "waiting"
    \* the locals of the finished call are dead
    /\ attempt' = 0 /\ result' = NoResult
    /\ callReqs' = 0 /\ callRelogins' = 0 /\ firstAuth' = FALSE
    /\ UNCHANGED <<run, exitStatus, cookies, cookieFile, active_norads>>
    /\ UNCHANGED ivars

(***************************************************************************)
(* TLE_Fetch.py : fetch_tle_data                                           *)
(*                                                                         *)
(* A request is two steps: the call returns or raises (the environment     *)
(* chooses the outcome, kept in http), then the code acts on the outcome.  *)
(***************************************************************************)
\* a loop that makes one pass too many
NextAttemptOffByOne(k, msg) ==
    IF k + 1 <= retry_attempts
    THEN pc' = "request" /\ attempt' = k + 1 /\ result' = NoResult /\ log' = msg
    ELSE pc' = "returned" /\ attempt' = k /\ result' = NoResult /\ log' = "all_failed"

\* :126, :166-167  the end of one pass of `for attempt in range(retry_attempts)`
\* that neither returned nor exited: the next pass, or "All retry attempts
\* failed" and return None
NextAttempt(k, msg) ==
    IF k + 1 < retry_attempts
    THEN pc' = "request" /\ attempt' = k + 1 /\ result' = NoResult /\ log' = msg
    ELSE pc' = "returned" /\ attempt' = k /\ result' = NoResult /\ log' = "all_failed"

\* :134  session.get(tle_url, timeout=30) returns a response or raises
SendRequest ==
    /\ pc = "request"
    /\ \E o \in Responses(Batch(idx)) \cup Raised :
          /\ http' = BatchExchange(Batch(idx), o)
          /\ firstAuth' = IF attempt = 0 THEN RawAuth(o) ELSE firstAuth
    /\ pc' = "response"
    /\ callReqs' = callReqs + 1
    /\ slept' = 0 /\ wrote' = {} /\ log' = ""
    /\ UNCHANGED <<run, exitStatus, cookies, cookieFile, active_norads, files, idx,
                   attempt, result, callRelogins>>
    /\ UNCHANGED ivars

\* :139-141  throttled: sys.exit(1)
FetchThrottled ==
    /\ pc = "response" /\ http.out.kind = "resp"
    /\ IsThrottled(http.out)
    /\ Exit(1)
    /\ http' = NoHttp /\ slept' = 0 /\ wrote' = {} /\ log' = "throttled"
    /\ UNCHANGED <<run, cookies, cookieFile, active_norads, files, idx, attempt,
                   result, callReqs, callRelogins, firstAuth>>
    /\ UNCHANGED ivars

\* :144-146  no content: return None
FetchEmpty ==
    /\ pc = "response" /\ http.out.kind = "resp"
    /\ ~IsThrottled(http.out) /\ IsEmpty(http.out)
    /\ pc' = "returned" /\ result' = NoResult
    /\ http' = NoHttp /\ slept' = 0 /\ wrote' = {} /\ log' = "no_data"
    /\ UNCHANGED <<run, exitStatus, cookies, cookieFile, active_norads, files, idx,
                   attempt, callReqs, callRelogins, firstAuth>>
    /\ UNCHANGED ivars

\* :149-151  session expired: login(force=True) is called
FetchAuthFailure ==
    /\ pc = "response" /\ http.out.kind = "resp"
    /\ ~IsThrottled(http.out) /\ ~IsEmpty(http.out) /\ IsAuthFailure(http.out)
    /\ pc' = "relogin"
    /\ callRelogins' = callRelogins + 1
    /\ http' = NoHttp /\ slept' = 0 /\ wrote' = {} /\ log' = "reauthenticating"
    /\ UNCHANGED <<run, exitStatus, cookies, cookieFile, active_norads, files, idx,
                   attempt, result, callReqs, firstAuth>>
    /\ UNCHANGED ivars

\* :154-156  data: return response.text.strip()
FetchSuccess ==
    /\ pc = "response" /\ http.out.kind = "resp"
    /\ ~IsThrottled(http.out) /\ ~IsEmpty(http.out) /\ ~IsAuthFailure(http.out)
    /\ IsSuccess(http.out)
    /\ pc' = "returned" /\ result' = TextOf(http.out)
    /\ http' = NoHttp /\ slept' = 0 /\ wrote' = {} /\ log' = "fetched"
    /\ UNCHANGED <<run, exitStatus, cookies, cookieFile, active_norads, files, idx,
                   attempt, callReqs, callRelogins, firstAuth>>
    /\ UNCHANGED ivars

\* :139-156  none of the four tests is met: the try block ends, next pass
FetchOtherStatus ==
    /\ pc = "response" /\ http.out.kind = "resp"
    /\ ~IsThrottled(http.out) /\ ~IsEmpty(http.out) /\ ~IsAuthFailure(http.out)
    /\ ~IsSuccess(http.out)
    /\ NextAttempt(attempt, "")
    /\ http' = NoHttp /\ slept' = 0 /\ wrote' = {}
    /\ UNCHANGED <<run, exitStatus, cookies, cookieFile, active_norads, files, idx,
                   callReqs, callRelogins, firstAuth>>
    /\ UNCHANGED ivars

\* :158-160  except (ConnectionError, Timeout): sleep, then the next pass
ConnectionFault ==
    /\ http.out.kind \in {"ConnectionError", "Timeout"}
    /\ slept' = Backoff(attempt)
    /\ NextAttempt(attempt, "connection_error")
    /\ http' = NoHttp /\ wrote' = {}
    /\ UNCHANGED <<run, exitStatus, cookies, cookieFile, active_norads, files, idx,
                   callReqs, callRelogins, firstAuth>>
    /\ UNCHANGED ivars

\* a handler that retries every request exception
RequestFaultRetried ==
    /\ http.out.kind = "RequestException"
    /\ slept' = Backoff(attempt)
    /\ NextAttempt(attempt, "connection_error")
    /\ http' = NoHttp /\ wrote' = {}
    /\ UNCHANGED <<run, exitStatus, cookies, cookieFile, active_norads, files, idx,
                   callReqs, callRelogins, firstAuth>>
    /\ UNCHANGED ivars

\* :162-164  except RequestException: sys.exit(1)
RequestFault ==
    /\ http.out.kind = "RequestException"
    /\ Exit(1)
    /\ http' = NoHttp /\ slept' = 0 /\ wrote' = {} /\ log' = "unexpected_request_error"
    /\ UNCHANGED <<run, cookies, cookieFile, active_norads, files, idx, attempt,
                   result, callReqs, callRelogins, firstAuth>>
    /\ UNCHANGED ivars

FetchConnectionError == pc = "response" /\ ConnectionFault
FetchRequestException == pc = "response" /\ RequestFault

\* :83 raised inside the try block of fetch_tle_data (:133)
ReloginConnectionError == pc = "relogin_response" /\ ConnectionFault
ReloginRequestException == pc = "relogin_response" /\ RequestFault

\* :152  response = session.get(tle_url) returns or raises
SendReissue ==
    /\ pc = "reissue"
    /\ \E o \in Responses(Batch(idx)) \cup Raised :
          http' = BatchExchange(Batch(idx), o)
    /\ pc' = "reissue_response"
    /\ callReqs' = callReqs + 1
    /\ slept' = 0 /\ wrote' = {} /\ log' = ""
    /\ UNCHANGED <<run, exitStatus, cookies, cookieFile, active_norads, files, idx,
                   attempt, result, callRelogins, firstAuth>>
    /\ UNCHANGED ivars

\* a retry that is counted as a new attempt
ReissueSuccessNewAttempt ==
    /\ pc = "reissue_response" /\ http.out.kind = "resp"
    /\ IsSuccess(http.out)
    /\ pc' = "returned" /\ result' = TextOf(http.out)
    /\ attempt' = attempt + 1
    /\ http' = NoHttp /\ slept' = 0 /\ wrote' = {} /\ log' = "fetched"
    /\ UNCHANGED <<run, exitStatus, cookies, cookieFile, active_norads, files, idx,
                   callReqs, callRelogins, firstAuth>>
    /\ UNCHANGED ivars

\* :154-156  the re-issued request brought data: return it
ReissueSuccess ==
    /\ pc = "reissue_response" /\ http.out.kind = "resp"
    /\ IsSuccess(http.out)
    /\ pc' = "returned" /\ result' = TextOf(http.out)
    /\ http' = NoHttp /\ slept' = 0 /\ wrote' = {} /\ log' = "fetched"
    /\ UNCHANGED <<run, exitStatus, cookies, cookieFile, active_norads, files, idx,
                   attempt, callReqs, callRelogins, firstAuth>>
    /\ UNCHANGED ivars

\* a re-issued request without data that is followed by the same pass again
ReissueFailsSamePass ==
    /\ pc = "reissue_response" /\ http.out.kind = "resp"
    /\ ~IsSuccess(http.out)
    /\ pc' = "request" /\ log' = ""
    /\ http' = NoHttp /\ slept' = 0 /\ wrote' = {}
    /\ UNCHANGED <<run, exitStatus, cookies, cookieFile, active_norads, files, idx,
                   attempt, result, callReqs, callRelogins, firstAuth>>
    /\ UNCHANGED ivars

\* :154  the re-issued request brought no data: the try block ends, next pass
ReissueFails ==
    /\ pc = "reissue_response" /\ http.out.kind = "resp"
    /\ ~IsSuccess(http.out)
    /\ NextAttempt(attempt, "")
    /\ http' = NoHttp /\ slept' = 0 /\ wrote' = {}
    /\ UNCHANGED <<run, exitStatus, cookies, cookieFile, active_norads, files, idx,
                   callReqs, callRelogins, firstAuth>>
    /\ UNCHANGED ivars

ReissueConnectionError == pc = "reissue_response" /\ ConnectionFault
ReissueRequestException == pc = "reissue_response" /\ RequestFault

\* the script is started again (by hand or by a scheduler) after it ended;
\* the cookie file and the partitions are what the last execution left
Restart ==
    /\ pc \in {"done", "exited"} /\ run < MaxRuns
    /\ run' = run + 1
    /\ pc' = "start" /\ exitStatus' = -1
    /\ cookies' = 0 /\ active_norads' = {} /\ idx' = 0 /\ attempt' = 0
    /\ result' = NoResult /\ http' = NoHttp /\ slept' = 0 /\ wrote' = {} /\ log' = ""
    /\ callReqs' = 0 /\ callRelogins' = 0 /\ firstAuth' = FALSE
    /\ UNCHANGED <<cookieFile, files>>
    /\ UNCHANGED ivars

FetchInit ==
    /\ pc = "start" /\ run = 1 /\ exitStatus = -1
    /\ cookies = 0 /\ cookieFile = 0
    /\ active_norads = {}
    /\ files = [d \in Dirs |-> [id \in Ids |-> NoFile]]
    /\ idx = 0 /\ attempt = 0 /\ result = NoResult
    /\ http = NoHttp /\ wrote = {} /\ slept = 0 /\ log = ""
    /\ callReqs = 0 /\ callRelogins = 0 /\ firstAuth = FALSE

IngestIdle ==
    /\ mpc = "idle" /\ irun = 0 /\ existing_tles = {} /\ store = {}
    /\ wpc = <<>> /\ recs = <<>> /\ ci = <<>> /\ attempts = <<>>
    /\ sgp4_calls = <<>> /\ events = <<>>
    /\ pre = <<>> /\ abandoned = <<>> /\ inserted = <<>>
    /\ stmt = [f |-> 0] /\ wslept = 0

Init == FetchInit /\ IngestIdle

\* one execution of the script, from login() at :202 to the end of the loop
\* or the exit of the process
Execution ==
    \/ ProbeSession \/ ProbeValid \/ ProbeInvalid \/ ProbeRaises
    \/ PostLogin \/ LoginAccepted \/ LoginRejected \/ LoginRaises
    \/ Setup
    \/ LoopSkip \/ LoopFetch \/ LoopEnd \/ SaveAndWait \/ SplitCrashes
    \/ SendRequest
    \/ FetchThrottled \/ FetchEmpty \/ FetchAuthFailure \/ FetchSuccess
    \/ FetchOtherStatus \/ FetchConnectionError \/ FetchRequestException
    \/ ReloginConnectionError \/ ReloginRequestException
    \/ SendReissue
    \/ ReissueSuccess \/ ReissueFails
    \/ ReissueConnectionError \/ ReissueRequestException

Next == Execution \/ Restart

Spec == Init /\ [][Next]_vars

\* the steps of a call of fetch_tle_data
CallStep ==
    /\ pc \in {"request", "response", "relogin", "relogin_response", "reissue",
               "reissue_response"}
    /\ Execution

\* :39-43  what an execution finds in the partitions: nothing, or the files
\* an earlier execution wrote for the first batch
LeftByEarlier ==
    { [d \in Dirs |-> [id \in Ids |-> NoFile]],
      SplitAndSave([d \in Dirs |-> [id \in Ids |-> NoFile]],
                   [lines |-> PairsOf(Batch(0))], {1}) }

InitCall ==
    /\ pc = "start" /\ run = 1 /\ exitStatus = -1
    /\ cookies = 0 /\ cookieFile = 0
    /\ active_norads = {}
    /\ files \in LeftByEarlier
    /\ idx = 0 /\ attempt = 0 /\ result = NoResult
    /\ http = NoHttp /\ wrote = {} /\ slept = 0 /\ log = ""
    /\ callReqs = 0 /\ callRelogins = 0 /\ firstAuth = FALSE
    /\ IngestIdle

\* One execution of the script in which the interpreter goes on executing a
\* call of fetch_tle_data for as long as it can, every HTTP call made inside
\* it returning or raising.
SpecCall == InitCall /\ [][Execution]_vars /\ WF_vars(CallStep)

(***************************************************************************)
(* data_input.py : data                                                    *)
(***************************************************************************)
\* Python's None, and a value that is not None
None == <<>>
Some(v) == <<v>>

\* A line of a TLE file.  id: the number NORAD_REGEX "1 (\d+)" finds in the
\* line (0: no match); ok: Satrec.twoline2rv accepts the line; jdH, frS: the
\* epoch the line carries (line 1), as sat.jdsatepoch in half days and
\* sat.jdsatepochF in seconds; err: the error code sat.sgp4 returns for the
\* elements the line carries (line 2).
Line1(id, jdH, frS) == [id |-> id, ok |-> TRUE, jdH |-> jdH, frS |-> frS, err |-> 0]
Line2(id, err) == [id |-> id, ok |-> TRUE, jdH |-> 0, frS |-> 0, err |-> err]
\* a first line NORAD_REGEX finds no number in
NoIdLine == [id |-> 0, ok |-> FALSE, jdH |-> 0, frS |-> 0, err |-> 0]
\* a second line twoline2rv rejects
BadLine2(id) == [id |-> id, ok |-> FALSE, jdH |-> 0, frS |-> 0, err |-> 0]

\* two epochs: jd = 2460310.5 with fr = 0, and with fr = 0.5
EpochA == <<4920621, 0>>
EpochB == <<4920621, 43200>>
\* jd = 2460310 with fr = 0.5: the instant of EpochA, given another way
EpochC == <<4920620, 43200>>
ElementSet(id, e, err) == <<Line1(id, e[1], e[2]), Line2(id, err)>>

\* The directories read by __main__ (:209-210).  Three active files: one with
\* a decayed object (error code 6) and an unpaired last line, one with a pair
\* without id, a pair that does not parse and an unpaired last line, one with
\* a single pair; one
\* inactive file that repeats a pair.  (1, EpochA) and (2, EpochA) occur in
\* more than one file.
FileA == ElementSet(1, EpochA, 0) \o ElementSet(1, EpochB, 6) \o ElementSet(2, EpochA, 0)
            \o <<Line1(3, 4920621, 43200)>>
FileB == <<NoIdLine, Line2(1, 0)>> \o ElementSet(1, EpochA, 0)
            \o <<Line1(2, 4920621, 43200), BadLine2(2)>> \o <<Line1(2, 4920621, 0)>>
FileC == ElementSet(2, EpochA, 0) \o ElementSet(3, EpochA, 0) \o ElementSet(3, EpochA, 0)
FileD == ElementSet(2, EpochC, 0)
Directory(d) == IF d = "active" THEN <<FileD, FileB, FileA>> ELSE <<FileC>>

NoStmt == [f |-> 0]

(***************************************************************************)
(* data_input.py : jday_to_datetime, parse_tle_file                        *)
(***************************************************************************)
\* :63  JD_UNIX_EPOCH = 2440587.5, in half days
JD_UNIX_EPOCH_H == 4881175
\* :64  86400.0
SECONDS_PER_DAY == 86400
\* :125  Earth's radius in km
EARTH_RADIUS == 6371

\* an epoch conversion that drops the fraction of the day
jday_to_datetime_whole_days(jdH, frS) ==
    (jdH - JD_UNIX_EPOCH_H) * (SECONDS_PER_DAY \div 2)

\* :58-65  timestamp = (jd + fr - JD_UNIX_EPOCH) * 86400.0, as whole seconds
\* since 1970-01-01T00:00:00Z
jday_to_datetime(jdH, frS) == (jdH - JD_UNIX_EPOCH_H) * (SECONDS_PER_DAY \div 2) + frS

\* :65  datetime.datetime.utcfromtimestamp(timestamp): the calendar fields of
\* a non-negative number of whole seconds since 1970-01-01T00:00:00Z
\* (proleptic Gregorian calendar, days counted from 0000-03-01)
utcfromtimestamp(ts) ==
    LET days == ts \div SECONDS_PER_DAY
        secs == ts % SECONDS_PER_DAY
        z == days + 719468
        era == z \div 146097
        doe == z - era * 146097
        yoe == (doe - doe \div 1460 + doe \div 36524 - doe \div 146096) \div 365
        doy == doe - (365 * yoe + yoe \div 4 - yoe \div 100)
        mp == (5 * doy + 2) \div 153
        m == IF mp < 10 THEN mp + 3 ELSE mp - 9
    IN [year |-> yoe + era * 400 + (IF m <= 2 THEN 1 ELSE 0),
        month |-> m,
        day |-> doy - (153 * mp + 2) \div 5 + 1,
        hour |-> secs \div 3600,
        minute |-> (secs % 3600) \div 60,
        second |-> secs % 60]

RECURSIVE SqrtSearch(_, _, _)
SqrtSearch(n, lo, hi) ==
    IF lo >= hi THEN lo
    ELSE LET mid == (lo + hi + 1) \div 2
         IN IF mid * mid <= n THEN SqrtSearch(n, mid, hi)
            ELSE SqrtSearch(n, lo, mid - 1)
\* math.sqrt on the whole numbers of the model
sqrt(n) == SqrtSearch(n, 0, 46340)

\* :113  sat.sgp4(jd, fr): (error_code, position, velocity); with a non-zero
\* code the vectors are not numbers
Sgp4(l1, l2) ==
    IF l2.err # 0
    THEN [error_code |-> l2.err, position |-> <<0, 0, 0>>, velocity |-> <<0, 0, 0>>]
    ELSE [error_code |-> 0, position |-> <<4080, 5440, 0>>, velocity |-> <<0, 0, 7>>]

\* state fields that keep the altitude of a failed propagation
StateFieldsAltitudeKept(res) ==
    IF res.error_code # 0
    THEN [altitude |-> Some(sqrt(res.position[1] * res.position[1]
                                 + res.position[2] * res.position[2]
                                 + res.position[3] * res.position[3]) - EARTH_RADIUS),
          pos_components |-> <<None, None, None>>,
          vel_components |-> <<None, None, None>>,
          velocity_magnitude |-> None]
    ELSE [altitude |-> Some(sqrt(res.position[1] * res.position[1]
                                 + res.position[2] * res.position[2]
                                 + res.position[3] * res.position[3]) - EARTH_RADIUS),
          pos_components |-> <<Some(res.position[1]), Some(res.position[2]),
                               Some(res.position[3])>>,
          vel_components |-> <<Some(res.velocity[1]), Some(res.velocity[2]),
                               Some(res.velocity[3])>>,
          velocity_magnitude |-> Some(sqrt(res.velocity[1] * res.velocity[1]
                                           + res.velocity[2] * res.velocity[2]
                                           + res.velocity[3] * res.velocity[3]))]

\* :114-128  the derived values; round(v, 4) leaves a whole number as it is
StateFields(res) ==
    IF res.error_code # 0
    THEN [altitude |-> None,
          pos_components |-> <<None, None, None>>,
          vel_components |-> <<None, None, None>>,
          velocity_magnitude |-> None]
    ELSE [altitude |-> Some(sqrt(res.position[1] * res.position[1]
                                 + res.position[2] * res.position[2]
                                 + res.position[3] * res.position[3]) - EARTH_RADIUS),
          pos_components |-> <<Some(res.position[1]), Some(res.position[2]),
                               Some(res.position[3])>>,
          vel_components |-> <<Some(res.velocity[1]), Some(res.velocity[2]),
                               Some(res.velocity[3])>>,
          velocity_magnitude |-> Some(sqrt(res.velocity[1] * res.velocity[1]
                                           + res.velocity[2] * res.velocity[2]
                                           + res.velocity[3] * res.velocity[3]))]

\* :130-143  the dictionary yielded for a pair
RecordOf(l1, l2) ==
    LET d == StateFields(Sgp4(l1, l2))
    IN [norad_id |-> l1.id,
        epoch |-> jday_to_datetime(l1.jdH, l1.frS),
        tle_line1 |-> l1,
        tle_line2 |-> l2,
        altitude_km |-> IF d.altitude # None THEN d.altitude ELSE None,
        x |-> d.pos_components[1],
        y |-> d.pos_components[2],
        z |-> d.pos_components[3],
        velocity_kms |-> d.velocity_magnitude,
        vx |-> d.vel_components[1],
        vy |-> d.vel_components[2],
        vz |-> d.vel_components[3]]

\* a membership test that never finds the key
KnownNever(existing, key) == FALSE

\* :110  existing_tles and (norad_id, epoch) in existing_tles
KnownAlready(existing, key) == existing # {} /\ key \in existing

\* :95-146  what becomes of one pair of lines
Outcome(l1, l2, existing) ==
    IF l1.id = 0 THEN "no_id"
    ELSE IF ~(l1.ok /\ l2.ok) THEN "raised"
    ELSE IF KnownAlready(existing, <<l1.id, jday_to_datetime(l1.jdH, l1.frS)>>)
         THEN "known"
    ELSE "propagated"

\* a loop over range(0, len(lines) - 2, 2)
NumPairsShort(n) == Cardinality({i \in 0..(n - 3) : i % 2 = 0})

\* :92  range(0, len(lines) - 1, 2), as the number of pairs visited
NumPairs(n) == Cardinality({i \in 0..(n - 2) : i % 2 = 0})

RECURSIVE ParseFromStopsAtError(_, _, _)
\* a loop that ends at the first pair without id or that raises
ParseFromStopsAtError(lines, k, existing) ==
    IF k > NumPairs(Len(lines)) THEN <<>>
    ELSE IF Outcome(lines[2 * k - 1], lines[2 * k], existing) \in {"no_id", "raised"}
         THEN <<>>
    ELSE (IF Outcome(lines[2 * k - 1], lines[2 * k], existing) = "propagated"
          THEN <<RecordOf(lines[2 * k - 1], lines[2 * k])>>
          ELSE <<>>) \o ParseFromStopsAtError(lines, k + 1, existing)

RECURSIVE ParseFrom(_, _, _)
ParseFrom(lines, k, existing) ==
    IF k > NumPairs(Len(lines)) THEN <<>>
    ELSE (IF Outcome(lines[2 * k - 1], lines[2 * k], existing) = "propagated"
          THEN <<RecordOf(lines[2 * k - 1], lines[2 * k])>>
          ELSE <<>>) \o ParseFrom(lines, k + 1, existing)

\* :78-146  list(parse_tle_file(file_path, existing_tles))
parse_tle_file(lines, existing) == ParseFrom(lines, 1, existing)

\* :113  the pairs (numbered from 1) for which sat.sgp4 is called
Sgp4Calls(lines, existing) ==
    {k \in 1..NumPairs(Len(lines)) :
        Outcome(lines[2 * k - 1], lines[2 * k], existing) = "propagated"}

\* :89-146  what parse_tle_file does with a file, in order: the warning of
\* line 90 (pair 0) when the number of lines is odd, then every pair visited
\* by the loop of line 92 with what became of it
ParseEvents(lines, existing) ==
    (IF Len(lines) % 2 # 0 THEN <<[pair |-> 0, what |-> "odd_warning"]>> ELSE <<>>)
    \o [k \in 1..NumPairs(Len(lines)) |->
           [pair |-> k, what |-> Outcome(lines[2 * k - 1], lines[2 * k], existing)]]

\* :180-181  record["is_active"] = is_active
Tagged(records, flag) ==
    [k \in 1..Len(records) |->
        [norad_id |-> records[k].norad_id, epoch |-> records[k].epoch,
         tle_line1 |-> records[k].tle_line1, tle_line2 |-> records[k].tle_line2,
         altitude_km |-> records[k].altitude_km,
         x |-> records[k].x, y |-> records[k].y, z |-> records[k].z,
         velocity_kms |-> records[k].velocity_kms,
         vx |-> records[k].vx, vy |-> records[k].vy, vz |-> records[k].vz,
         is_active |-> flag]]

(***************************************************************************)
(* data_input.py : the store                                               *)
(***************************************************************************)
\* a uniqueness constraint that also spans is_active
ConflictKeyWithFlag(rec) == <<rec.norad_id, rec.epoch, rec.is_active>>

\* :48  UniqueConstraint('norad_id', 'epoch', name='uix_norad_epoch')
ConflictKey(rec) == <<rec.norad_id, rec.epoch>>

\* a plain INSERT that keeps every row of the chunk
InsertRowsKeepsAll(st, chunk, src) ==
    st \cup {[id |-> Cardinality(st) + k, rec |-> chunk[k], src |-> src] : k \in DOMAIN chunk}

RECURSIVE InsertRowsUpdates(_, _, _)
\* an upsert: ON CONFLICT DO UPDATE, the row takes the values of the record
InsertRowsUpdates(st, chunk, src) ==
    IF chunk = <<>> THEN st
    ELSE InsertRowsUpdates(
            IF \E row \in st : ConflictKey(row.rec) = ConflictKey(Head(chunk))
            THEN {IF ConflictKey(row.rec) = ConflictKey(Head(chunk))
                  THEN [row EXCEPT !.rec = Head(chunk)] ELSE row : row \in st}
            ELSE st \cup {[id |-> Cardinality(st) + 1, rec |-> Head(chunk), src |-> src]},
            Tail(chunk), src)

RECURSIVE InsertRows(_, _, _)
\* :155-157, :161-162  INSERT ... VALUES chunk ON CONFLICT ON CONSTRAINT
\* uix_norad_epoch DO NOTHING, committed: each row in turn is added under the
\* next value of the id column unless a row with its key is there (src is
\* not a column: it names the call that added the row)
InsertRows(st, chunk, src) ==
    IF chunk = <<>> THEN st
    ELSE InsertRows(
            IF \E row \in st : ConflictKey(row.rec) = ConflictKey(Head(chunk))
            THEN st
            ELSE st \cup {[id |-> Cardinality(st) + 1, rec |-> Head(chunk), src |-> src]},
            Tail(chunk), src)

\* :67-76  fetch_existing_tles()
fetch_existing_tles(st) == {<<row.rec.norad_id, row.rec.epoch>> : row \in st}

(***************************************************************************)
(* data_input.py : the main thread and the tasks of the thread pool        *)
(*                                                                         *)
(* mpc:  "main"  before fetch_existing_tles()                (:213)        *)
(*       "active", "inactive"  inside                                      *)
(*               batch_insert_tle_from_directory of that directory         *)
(*       "done"  __main__ has ended                                        *)
(* wpc[f]:  "queued"  submitted, not started                 (:198)        *)
(*          "insert"  inside chunked_insert, about to execute (:161)       *)
(*          "done"    insert_tle_file_to_db has returned                   *)
(*          "raised"  insert_tle_file_to_db has raised                     *)
(***************************************************************************)
FileIds == DOMAIN wpc

\* :190-200  glob, and executor.submit for every file
Submit(d) ==
    LET n == Len(Directory(d))
    IN /\ wpc' = [f \in 1..n |-> "queued"]
       /\ recs' = [f \in 1..n |-> <<>>]
       /\ ci' = [f \in 1..n |-> 0]
       /\ attempts' = [f \in 1..n |-> 0]
       /\ sgp4_calls' = [f \in 1..n |-> {}]
       /\ events' = [f \in 1..n |-> <<>>]
       /\ pre' = [f \in 1..n |-> {}]
       /\ abandoned' = [f \in 1..n |-> {}]
       /\ inserted' = [f \in 1..n |-> {}]

\* an as_completed loop that a task's exception gets out of
AllCompletedOrOneRaised ==
    \/ \A f \in FileIds : wpc[f] \in {"done", "raised"}
    \/ \E f \in FileIds : wpc[f] = "raised"

\* :201-205  every future has completed
AllCompleted == \A f \in FileIds : wpc[f] \in {"done", "raised"}

\* :213-216  existing_tles = fetch_existing_tles(), then the active directory
FetchExisting ==
    /\ mpc = "main"
    /\ existing_tles' = fetch_existing_tles(store)
    /\ mpc' = "active"
    /\ Submit("active")
    /\ stmt' = NoStmt /\ wslept' = 0
    /\ UNCHANGED <<irun, store>>
    /\ UNCHANGED fvars

\* a main thread that reads the index again between the two directories
ActiveDoneRefreshes ==
    /\ mpc = "active" /\ AllCompleted
    /\ mpc' = "inactive"
    /\ existing_tles' = fetch_existing_tles(store)
    /\ Submit("inactive")
    /\ stmt' = NoStmt /\ wslept' = 0
    /\ UNCHANGED <<irun, store>>
    /\ UNCHANGED fvars

\* :216-219  the active directory is finished: the inactive directory, with
\* the same existing_tles
ActiveDone ==
    /\ mpc = "active" /\ AllCompleted
    /\ mpc' = "inactive"
    /\ Submit("inactive")
    /\ stmt' = NoStmt /\ wslept' = 0
    /\ UNCHANGED <<irun, existing_tles, store>>
    /\ UNCHANGED fvars

\* :219  the inactive directory is finished: the script ends
InactiveDone ==
    /\ mpc = "inactive" /\ AllCompleted
    /\ mpc' = "done"
    /\ stmt' = NoStmt /\ wslept' = 0
    /\ UNCHANGED <<irun, existing_tles, store, wpc, recs, ci, attempts, sgp4_calls, events,
                   pre, abandoned, inserted>>
    /\ UNCHANGED fvars

\* the script is run again over the same directories and the same store
IngestRestart ==
    /\ mpc = "done" /\ irun < MaxRuns
    /\ irun' = irun + 1
    /\ mpc' = "main"
    /\ existing_tles' = {}
    /\ wpc' = <<>> /\ recs' = <<>> /\ ci' = <<>> /\ attempts' = <<>>
    /\ sgp4_calls' = <<>> /\ events' = <<>>
    /\ pre' = <<>> /\ abandoned' = <<>> /\ inserted' = <<>>
    /\ stmt' = NoStmt /\ wslept' = 0
    /\ UNCHANGED store
    /\ UNCHANGED fvars

\* :195-198  a worker of the pool is free and f is the first task waiting
MayStart(f) ==
    /\ mpc \in {"active", "inactive"}
    /\ f \in FileIds /\ wpc[f] = "queued"
    /\ Cardinality({g \in FileIds : wpc[g] = "insert"}) < max_workers
    /\ \A g \in FileIds : g < f => wpc[g] # "queued"

\* :176-182  insert_tle_file_to_db up to the first statement of chunked_insert
StartFile(f) ==
    /\ MayStart(f)
    /\ LET parsed == Tagged(parse_tle_file(Directory(mpc)[f], existing_tles),
                            mpc = "active")
       IN /\ recs' = [recs EXCEPT ![f] = parsed]
          /\ wpc' = [wpc EXCEPT ![f] = IF parsed = <<>> THEN "done" ELSE "insert"]
    /\ sgp4_calls' = [sgp4_calls EXCEPT ![f] = Sgp4Calls(Directory(mpc)[f], existing_tles)]
    /\ events' = [events EXCEPT ![f] = ParseEvents(Directory(mpc)[f], existing_tles)]
    /\ pre' = [pre EXCEPT ![f] = fetch_existing_tles(store)]
    /\ stmt' = NoStmt /\ wslept' = 0
    /\ UNCHANGED <<mpc, irun, existing_tles, store, ci, attempts, abandoned, inserted>>
    /\ UNCHANGED fvars

\* :85, :176, :203-205  open(file_path) raises: the task ends with the
\* exception, which the main thread prints
FileRaises(f) ==
    /\ MayStart(f)
    /\ wpc' = [wpc EXCEPT ![f] = "raised"]
    /\ stmt' = NoStmt /\ wslept' = 0
    /\ UNCHANGED <<mpc, irun, existing_tles, store, recs, ci, attempts, sgp4_calls, events,
                   pre, abandoned, inserted>>
    /\ UNCHANGED fvars

\* :154  chunk = records[i:i+chunk_size]
Chunk(f) == SubSeq(recs[f], ci[f] + 1, Min(ci[f] + chunk_size, Len(recs[f])))

\* :153, :158  the next pass of the chunk loop, or the return of
\* chunked_insert and of insert_tle_file_to_db
NextChunk(f) ==
    IF ci[f] + chunk_size < Len(recs[f])
    THEN /\ ci' = [ci EXCEPT ![f] = @ + chunk_size]
         /\ attempts' = [attempts EXCEPT ![f] = 0]
         /\ UNCHANGED wpc
    ELSE /\ wpc' = [wpc EXCEPT ![f] = "done"]
         /\ UNCHANGED <<ci, attempts>>

\* the call of insert_tle_file_to_db for file f of the directory at hand
Src(f) == <<irun, mpc, f>>

\* :159-163  the statement is executed and committed: break
ExecuteOk(f) ==
    /\ f \in FileIds /\ wpc[f] = "insert"
    /\ attempts[f] < max_retries
    /\ store' = InsertRows(store, Chunk(f), Src(f))
    /\ inserted' = [inserted EXCEPT ![f] = @ \cup {ci[f]}]
    /\ NextChunk(f)
    /\ stmt' = [f |-> f, i |-> ci[f], ok |-> TRUE] /\ wslept' = 0
    /\ UNCHANGED <<mpc, irun, existing_tles, recs, sgp4_calls, events, pre, abandoned>>
    /\ UNCHANGED fvars

\* a chunked_insert that returns when a chunk has exhausted its attempts
ExecuteFailsStops(f) ==
    /\ f \in FileIds /\ wpc[f] = "insert"
    /\ attempts[f] < max_retries
    /\ wslept' = retry_delay
    /\ stmt' = [f |-> f, i |-> ci[f], ok |-> FALSE]
    /\ IF attempts[f] + 1 < max_retries
       THEN /\ attempts' = [attempts EXCEPT ![f] = @ + 1]
            /\ UNCHANGED <<wpc, ci, abandoned>>
       ELSE /\ abandoned' = [abandoned EXCEPT ![f] = @ \cup {ci[f]}]
            /\ wpc' = [wpc EXCEPT ![f] = "done"]
            /\ attempts' = [attempts EXCEPT ![f] = @ + 1]
            /\ UNCHANGED ci
    /\ UNCHANGED <<mpc, irun, existing_tles, store, recs, sgp4_calls, events, pre, inserted>>
    /\ UNCHANGED fvars

\* :164-169  the statement raises: attempts += 1, sleep; after max_retries
\* failures the else branch of the while loop reports the chunk
ExecuteFails(f) ==
    /\ f \in FileIds /\ wpc[f] = "insert"
    /\ attempts[f] < max_retries
    /\ wslept' = retry_delay
    /\ stmt' = [f |-> f, i |-> ci[f], ok |-> FALSE]
    /\ IF attempts[f] + 1 < max_retries
       THEN /\ attempts' = [attempts EXCEPT ![f] = @ + 1]
            /\ UNCHANGED <<wpc, ci, abandoned>>
       ELSE /\ abandoned' = [abandoned EXCEPT ![f] = @ \cup {ci[f]}]
            /\ IF ci[f] + chunk_size < Len(recs[f])
               THEN /\ ci' = [ci EXCEPT ![f] = @ + chunk_size]
                    /\ attempts' = [attempts EXCEPT ![f] = 0]
                    /\ UNCHANGED wpc
               ELSE /\ wpc' = [wpc EXCEPT ![f] = "done"]
                    /\ attempts' = [attempts EXCEPT ![f] = @ + 1]
                    /\ UNCHANGED ci
    /\ UNCHANGED <<mpc, irun, existing_tles, store, recs, sgp4_calls, events, pre, inserted>>
    /\ UNCHANGED fvars

FetchIdle ==
    /\ pc = "idle" /\ run = 0 /\ exitStatus = -1
    /\ cookies = 0 /\ cookieFile = 0
    /\ active_norads = {}
    /\ files = [d \in Dirs |-> [id \in Ids |-> NoFile]]
    /\ idx = 0 /\ attempt = 0 /\ result = NoResult
    /\ http = NoHttp /\ wrote = {} /\ slept = 0 /\ log = ""
    /\ callReqs = 0 /\ callRelogins = 0 /\ firstAuth = FALSE

IngestInit ==
    /\ FetchIdle
    /\ mpc = "main" /\ irun = 1 /\ existing_tles = {} /\ store = {}
    /\ wpc = <<>> /\ recs = <<>> /\ ci = <<>> /\ attempts = <<>>
    /\ sgp4_calls = <<>> /\ events = <<>>
    /\ pre = <<>> /\ abandoned = <<>> /\ inserted = <<>>
    /\ stmt = NoStmt /\ wslept = 0

NextIngest ==
    \/ FetchExisting \/ ActiveDone \/ InactiveDone \/ IngestRestart
    \/ \E f \in FileIds :
          StartFile(f) \/ FileRaises(f) \/ ExecuteOk(f) \/ ExecuteFails(f)

SpecIngest == IngestInit /\ [][NextIngest]_vars

(***************************************************************************)
(* Properties of TLE_Fetch.py (specification Spec)                         *)
(***************************************************************************)
ResponsePcs == {"response", "relogin_response", "reissue_response"}
Transient(h) == h.out.kind \in {"ConnectionError", "Timeout"}
Answered(h) == h.out.kind = "resp"
NonBlank(h) == Len(h.out.lines) > 0

\* C1: when the response to an attempt's batch request has status 429 or
\* carries the throttle marker, the process exits with a non-zero status, and
\* an exited process issues no HTTP call and starts no further attempt (the
\* only step after an exit is a new execution of the script).
C1_ThrottleExits ==
    [][ /\ ( /\ pc = "response" /\ Answered(http)
             /\ (http.out.status = 429 \/ http.out.throttle) )
           => (pc' = "exited" /\ exitStatus' # 0 /\ exitStatus' # -1
               /\ http' = NoHttp /\ attempt' = attempt /\ callReqs' = callReqs)
        /\ pc = "exited"
           => (http' = NoHttp /\ run' = run + 1 /\ pc' = "start") ]_vars

\* a throttle marker in a status-200 answer to the first request of attempt 1
\* has ended the process after that single request
C1_Witness ==
    /\ pc = "exited" /\ exitStatus = 1 /\ log = "throttled"
    /\ attempt = 0 /\ callReqs = 1 /\ callRelogins = 0

\* C2 as stated: once attempt 1's response carried the authentication-failure
\* marker or status 401/403, the call makes at most one forced re-login, and
\* a re-issued request that succeeds is returned within the same attempt.
C2_Original ==
    [][ /\ firstAuth' => callRelogins' <= 1
        /\ ( /\ pc = "reissue_response" /\ Answered(http)
             /\ http.out.status = 200 /\ NonBlank(http) )
           => (pc' = "returned" /\ attempt' = attempt
               /\ result'.kind = "text" /\ result'.lines = http.out.lines) ]_vars

\* C2 (amended): the call makes at most one forced re-login per attempt (so
\* up to retry_attempts in the call), the request is re-issued at most once
\* per re-login, and a re-issued request that succeeds (status 200, non-empty
\* body) is returned within the same attempt.
C2_OncePerAttempt ==
    [][ /\ callRelogins' <= attempt' + 1
        /\ callReqs' <= attempt' + 1 + callRelogins'
        /\ pc' = "reissue" => (pc = "relogin_response" /\ callReqs' = callReqs)
        /\ ( /\ pc = "reissue_response" /\ Answered(http)
             /\ http.out.status = 200 /\ NonBlank(http) )
           => (pc' = "returned" /\ attempt' = attempt
               /\ result'.kind = "text" /\ result'.lines = http.out.lines) ]_vars

\* attempt 1 met an authentication failure, re-logged in once, re-issued the
\* request once and returned its body while still in attempt 1
C2_Witness ==
    /\ pc = "returned" /\ firstAuth /\ attempt = 0
    /\ callRelogins = 1 /\ callReqs = 2 /\ result.kind = "text"

\* C3: a partition file that exists is never opened for writing again and
\* never changes, whatever the batch it belongs to.
C3_WriteOnce ==
    [][ \A d \in Dirs, id \in Ids :
          files[d][id].exists
          => (<<d, id>> \notin wrote' /\ files'[d][id] = files[d][id]) ]_vars

\* C9: a connection error or timeout on the attempt with 0-based index k is
\* followed by a sleep of exactly 5 + 2k seconds and then by the next attempt
\* (after the last attempt, by the return of None); the attempt index never
\* reaches retry_attempts.
C9_LinearBackoff ==
    [][ /\ (pc \in ResponsePcs /\ Transient(http))
           => /\ slept' = 5 + 2 * attempt
              /\ IF attempt + 1 < retry_attempts
                 THEN pc' = "request" /\ attempt' = attempt + 1
                 ELSE pc' = "returned" /\ result' = NoResult
        /\ attempt' < retry_attempts ]_vars

\* the fourth attempt failed on the network: 11 seconds of sleep, then the
\* fifth attempt
C9_Witness ==
    pc = "request" /\ attempt = 4 /\ slept = 11 /\ log = "connection_error"

\* the last pass of the attempt loop ends without a return and without an exit
LastPassFails ==
    /\ attempt = retry_attempts - 1
    /\ \/ pc \in ResponsePcs /\ Transient(http)
       \/ /\ pc = "response" /\ Answered(http) /\ NonBlank(http)
          /\ http.out.status \notin {200, 204, 401, 403, 429}
          /\ ~http.out.throttle /\ ~http.out.auth
       \/ /\ pc = "reissue_response" /\ Answered(http)
          /\ ~(http.out.status = 200 /\ NonBlank(http))

\* C10: when the last attempt ends without a returned response,
\* fetch_tle_data returns None and the process goes on; the caller then writes
\* no partition file for the batch and moves to the next batch.
C10_ExhaustedSkips ==
    [][ /\ LastPassFails
           => (pc' = "returned" /\ result' = NoResult /\ exitStatus' = -1)
        /\ (pc = "returned" /\ result = NoResult)
           => (wrote' = {} /\ files' = files /\ exitStatus' = -1
               /\ pc' = "loop" /\ idx' = idx + BATCH_SIZE) ]_vars

\* all five attempts of the first batch failed and another batch remains
C10_Witness ==
    /\ pc = "returned" /\ log = "all_failed" /\ result = NoResult
    /\ exitStatus = -1 /\ idx = 0 /\ idx + BATCH_SIZE < NumIds

\* a response that is not a throttle answer and has status 204 or a body that
\* is empty after strip()
NoContent(h) ==
    /\ Answered(h) /\ h.out.status # 429 /\ ~h.out.throttle
    /\ (h.out.status = 204 \/ ~NonBlank(h))

\* C11: a response received by fetch_tle_data (to the request of an attempt
\* or to the request re-issued after a re-login) with status 204 or a blank
\* body makes the call return None at once, with no further attempt, no
\* re-login, no request and no sleep inside the call; the caller then writes
\* nothing for the batch and moves on.
C11_EmptyReturnsNone ==
    [][ /\ (pc \in {"response", "reissue_response"} /\ NoContent(http))
           => /\ pc' = "returned" /\ result' = NoResult
              /\ attempt' = attempt /\ callReqs' = callReqs
              /\ callRelogins' = callRelogins /\ slept' = 0
        /\ (pc = "returned" /\ result = NoResult)
           => (wrote' = {} /\ files' = files /\ idx' = idx + BATCH_SIZE) ]_vars

\* C12: inside fetch_tle_data a request exception that is neither a
\* connection error nor a timeout (raised by the request of an attempt, by the
\* login request of a forced re-login or by the re-issued request) ends the
\* process at once with a non-zero status: no sleep, no further attempt, and
\* an exited process makes no HTTP call.
C12_RequestFaultFatal ==
    [][ /\ (pc \in ResponsePcs /\ http.out.kind = "RequestException")
           => /\ pc' = "exited" /\ exitStatus' > 0
              /\ http' = NoHttp /\ slept' = 0
              /\ attempt' = attempt /\ callReqs' = callReqs
              /\ callRelogins' = callRelogins /\ result' = result
        /\ pc = "exited" => (http' = NoHttp /\ callReqs' = 0 /\ slept' = 0) ]_vars

\* the third attempt's request raised such an exception after two attempts
\* had failed on the network, and the process has exited
C12_Witness ==
    /\ pc = "exited" /\ exitStatus = 1 /\ log = "unexpected_request_error"
    /\ attempt = 2 /\ callReqs = 3

\* the control points inside a call of fetch_tle_data
CallPcs == {"request", "response", "relogin", "relogin_response", "reissue",
            "reissue_response"}

\* C13: after every batch for which fetch_tle_data was called and returned
\* (text or None), the caller sleeps a whole number of seconds between 50 and
\* 90 before anything else, unless the process ends while the text is being
\* saved; the loop reaches another batch only through that
\* sleep or by skipping a batch without a request, and a call is left only by
\* its return or by the exit of the process.  So the requests of two
\* different batches of one execution always have such a sleep between them.
C13_SleepBetweenBatches ==
    [][ /\ pc = "returned"
           => \/ /\ pc' = "loop" /\ slept' \in 50..90 /\ http' = NoHttp
                 /\ idx' = idx + BATCH_SIZE
              \/ /\ pc' = "exited" /\ result # NoResult /\ http' = NoHttp
                 /\ idx' = idx
        /\ pc \in CallPcs
           => /\ idx' = idx
              /\ pc' \in CallPcs \cup {"returned", "exited"}
        /\ http'.call = "batch" => (pc \in {"request", "reissue"} /\ idx' = idx)
        /\ pc' \in CallPcs => pc \in CallPcs \cup {"loop"}
        /\ (pc = "loop" /\ idx' # idx) => (http' = NoHttp /\ pc' = "loop")
        /\ pc = "exited" => (pc' = "start" /\ run' = run + 1) ]_vars

\* a call for the first batch returned None, the caller slept 50 seconds and
\* is about to request the next batch
C13_Witness ==
    /\ pc = "loop" /\ log = "waiting" /\ slept = 50
    /\ idx = BATCH_SIZE /\ idx < NumIds
    /\ \A id \in Ids : ~files["active"][id].exists /\ ~files["inactive"][id].exists

\* the probe request of an unforced login() did not succeed
ProbeFailed(h) == ~(Answered(h) /\ h.out.status = 200)

\* C14: login submits the credentials exactly when it is forced, or no
\* session cache file exists, or the probe request fails (is answered with a
\* status other than 200, or raises); when it is not forced and the probe
\* succeeds it returns with no login request and the session cache file as
\* it was.
C14_LoginWhenNeeded ==
    [][ /\ pc = "relogin" => http'.call = "login"
        /\ pc = "probe_response"
           => IF cookieFile = 0 \/ ProbeFailed(http)
              THEN pc' = "login"
              ELSE pc' = "setup" /\ cookieFile' = cookieFile /\ http' = NoHttp
        /\ pc = "login" => http'.call = "login"
        /\ http'.call = "login" => pc \in {"login", "relogin"} ]_vars

\* C15: when the login request is answered with a status other than 200 the
\* process exits with a non-zero status and the session cache file is as it
\* was, whether login was called at start-up or as a forced re-login inside
\* fetch_tle_data; when it is answered 200 the cache file is overwritten with
\* the session's cookies and login returns to its caller.
C15_LoginOutcome ==
    [][ (pc \in {"login_response", "relogin_response"} /\ Answered(http))
           => IF http.out.status = 200
              THEN /\ cookieFile' = cookies' /\ cookies' # 0
                   /\ exitStatus' = -1
                   /\ pc' = IF pc = "login_response" THEN "setup" ELSE "reissue"
              ELSE /\ pc' = "exited" /\ exitStatus' > 0
                   /\ cookieFile' = cookieFile /\ http' = NoHttp
                   /\ attempt' = attempt /\ callReqs' = callReqs ]_vars

\* a forced re-login was rejected while a cache file existed: the process has
\* exited and the file still holds what an earlier login saved
C15_Witness ==
    /\ pc = "exited" /\ exitStatus = 1 /\ log = "login_failed"
    /\ callRelogins = 1 /\ cookieFile # 0

\* the pairs of lines of a text at positions (2k-1, 2k) counted from 1, and
\* of those with the two markers the ones of object X, in input order
PairsAt(lines) == [k \in 1..(Len(lines) \div 2) |-> <<lines[2 * k - 1], lines[2 * k]>>]
MarkedPairsOf(lines, X) ==
    SelectSeq(PairsAt(lines), LAMBDA p : p[1].m = "1" /\ p[2].m = "2" /\ p[1].id = X)
Partition(X) == IF X \in active_norads THEN "active" ELSE "inactive"

\* C20: for every text returned by fetch_tle_data and every membership set,
\* split_and_save_tle raises no error and writes, for each object X with at
\* least one pair carrying the two markers, exactly one file: in the active
\* partition if X is in the membership set, in the inactive one otherwise,
\* holding the marked pairs of X in input order; it touches no other file,
\* and malformed pairs and an unpaired last line add nothing.
C20_SplitByObject ==
    [][ (pc = "returned" /\ result.kind = "text")
           => /\ pc' = "loop" /\ exitStatus' = -1
              /\ wrote' = {<<Partition(X), X>> :
                             X \in {Y \in Ids : MarkedPairsOf(result.lines, Y) # <<>>}}
              /\ \A d \in Dirs, X \in Ids :
                    files'[d][X] =
                        IF MarkedPairsOf(result.lines, X) # <<>> /\ d = Partition(X)
                        THEN [exists |-> TRUE,
                              content |-> MarkedPairsOf(result.lines, X)]
                        ELSE files[d][X] ]_vars

\* a response with status 429 or with "Too Many Requests" in its body
ThrottleAnswer(h) == Answered(h) /\ (h.out.status = 429 \/ h.out.throttle)

\* C21: every response fetch_tle_data receives to a batch request (the
\* request of an attempt, or the request re-issued after a forced re-login)
\* that has status 429 or carries the throttle marker ends the process at
\* once: it is not returned as data, no further attempt is started and no
\* HTTP call follows; and no text the call returns carries the marker.
C21_ThrottleAlwaysFatal ==
    [][ /\ (pc \in {"response", "reissue_response"} /\ ThrottleAnswer(http))
           => /\ pc' = "exited" /\ exitStatus' > 0
              /\ result'.kind # "text" /\ attempt' = attempt
              /\ http' = NoHttp
        /\ (pc' = "returned" /\ result'.kind = "text") => ~result'.throttle ]_vars

\* C26: a text returned by fetch_tle_data is the non-empty body of a
\* status-200 response, to the request of an attempt or to the re-issued
\* request, that carries neither "alert-danger" nor the throttle marker; a
\* text comes from nowhere else, so what split_and_save_tle is given is
\* never an error page.
C26_ReturnedTextIsData ==
    [][ /\ (pc \in {"response", "reissue_response"} /\ result'.kind = "text")
           => /\ pc' = "returned" /\ Answered(http)
              /\ http.out.status = 200 /\ NonBlank(http)
              /\ ~http.out.auth /\ ~http.out.throttle
              /\ result'.lines = http.out.lines
        /\ (result'.kind = "text" /\ result' # result)
           => pc \in {"response", "reissue_response"}
        /\ (pc = "returned" /\ wrote' # {})
           => (result.kind = "text" /\ ~result.auth /\ ~result.throttle) ]_vars

\* the positions in norad_list of the batch that starts at offset i
Positions(i) == {k \in 1..NumIds : i < k /\ k <= i + BATCH_SIZE}
\* id has a file in one of the two partitions
Stored(id) == files["active"][id].exists \/ files["inactive"][id].exists

\* C23: at the head of the loop a batch is skipped, with no HTTP request, no
\* sleep and no write, exactly when every id of the batch has a file in the
\* active or the inactive partition; otherwise fetch_tle_data is entered for
\* it, and every batch request made for it, first or re-issued, names all the
\* ids of the batch, those that have a file included.
C23_SkipIffAllStored ==
    [][ /\ (pc = "loop" /\ idx < NumIds)
           => IF \A k \in Positions(idx) : Stored(norad_list[k])
              THEN /\ pc' = "loop" /\ idx' = idx + BATCH_SIZE
                   /\ http' = NoHttp /\ slept' = 0
                   /\ wrote' = {} /\ files' = files
              ELSE /\ pc' = "request" /\ idx' = idx /\ attempt' = 0
        /\ pc \in {"request", "reissue"}
           => /\ http'.call = "batch" /\ idx' = idx
              /\ Len(http'.ids) = Cardinality(Positions(idx))
              /\ \A k \in Positions(idx) : http'.ids[k - idx] = norad_list[k]
        /\ http'.call = "batch" => pc \in {"request", "reissue"} ]_vars

\* in a later execution the first batch, of which one id has a file and
\* another has none, has been requested again with all its ids
C23_Witness ==
    /\ pc = "response" /\ run > 1 /\ idx = 0 /\ http.call = "batch"
    /\ Len(http.ids) = BATCH_SIZE
    /\ \E j, k \in DOMAIN http.ids : Stored(http.ids[j]) /\ ~Stored(http.ids[k])

\* C25: inside a call of fetch_tle_data the attempt index stays below
\* retry_attempts, at most 2 * retry_attempts batch requests and at most
\* retry_attempts forced re-logins are made, and, every HTTP call returning
\* or raising, the call ends: it returns or the process exits.
C25_CallTerminates ==
    /\ [](/\ attempt < retry_attempts
          /\ callReqs <= 2 * retry_attempts
          /\ callRelogins <= retry_attempts)
    /\ (pc \in CallPcs) ~> (pc \in {"returned", "exited"})

\* a call has returned after retry_attempts attempts, each with a forced
\* re-login and a re-issued request
C25_Witness ==
    /\ pc = "returned" /\ log = "all_failed" /\ attempt = retry_attempts - 1
    /\ callReqs = 2 * retry_attempts /\ callRelogins = retry_attempts

(***************************************************************************)
(* Properties of data_input.py (specification SpecIngest)                  *)
(***************************************************************************)
Keys(records) == {<<records[k].norad_id, records[k].epoch>> : k \in DOMAIN records}
StoreKeys == {<<row.rec.norad_id, row.rec.epoch>> : row \in store}
InDirectory == mpc \in {"active", "inactive"}
\* the rows of the store added by the call for file f
AddedBy(f) == {row \in store : row.src = Src(f)}
\* the records of the call for file f whose key was in the store, or not,
\* when the call began
Old(f) == {k \in DOMAIN recs[f] : <<recs[f][k].norad_id, recs[f][k].epoch>> \in pre[f]}
New(f) == {k \in DOMAIN recs[f] : <<recs[f][k].norad_id, recs[f][k].epoch>> \notin pre[f]}
\* chunked_insert was called for file f and has returned
Returned(f) == InDirectory /\ wpc[f] = "done" /\ recs[f] # <<>>
\* the first index of every chunk of file f
ChunkStarts(f) == {i \in 0..(Len(recs[f]) - 1) : i % chunk_size = 0}
DerivedOf(rec) == <<rec.x, rec.y, rec.z, rec.vx, rec.vy, rec.vz,
                    rec.velocity_kms, rec.altitude_km>>
AllNull(rec) == \A j \in 1..8 : DerivedOf(rec)[j] = <<>>
NoneNull(rec) == \A j \in 1..8 : DerivedOf(rec)[j] # <<>>
\* the pairs of lines of file f, numbered from 1, and those with an id that
\* twoline2rv accepts; the key of such a pair
PairsIn(f) == 1..((Len(Directory(mpc)[f])) \div 2)
First(f, k) == Directory(mpc)[f][2 * k - 1]
Second(f, k) == Directory(mpc)[f][2 * k]
Keyed(f) == {k \in PairsIn(f) : First(f, k).id # 0 /\ First(f, k).ok /\ Second(f, k).ok}
KeyOf(f, k) == <<First(f, k).id,
                 (First(f, k).jdH - 4881175) * 43200 + First(f, k).frS>>
Parsed(f) == InDirectory /\ wpc[f] \in {"insert", "done"}

\* C4: in every reachable state of an ingestion run, whatever the
\* interleaving of the workers' chunk inserts across files and across
\* repeated runs, the store holds at most one row per (norad_id, epoch);
\* nothing but the store's constraint orders the workers.
C4_OneRowPerKey ==
    \A r1, r2 \in store :
        (r1.rec.norad_id = r2.rec.norad_id /\ r1.rec.epoch = r2.rec.epoch) => r1 = r2

\* C4 witness: in a repeated run, while another worker is inside
\* chunked_insert, a statement has just been committed whose chunk held a key
\* that a different call had already stored.
C4_Witness ==
    /\ irun > 1 /\ stmt.f # 0 /\ stmt.ok
    /\ \E g \in FileIds : g # stmt.f /\ wpc[g] = "insert"
    /\ \E k \in DOMAIN recs[stmt.f] :
          /\ k > stmt.i /\ k <= stmt.i + chunk_size
          /\ \E row \in store :
                /\ row.rec.norad_id = recs[stmt.f][k].norad_id
                /\ row.rec.epoch = recs[stmt.f][k].epoch
                /\ row.src # Src(stmt.f)

\* C5 as stated: a call of chunked_insert with N records of which exactly one
\* has a key already in the store adds exactly N-1 rows, and in general the
\* rows added are exactly the records whose key was not already present.
C5_Original ==
    \A f \in FileIds :
        Returned(f) =>
            /\ Cardinality(Old(f)) = 1 => Cardinality(AddedBy(f)) = Len(recs[f]) - 1
            /\ Cardinality(AddedBy(f)) = Cardinality(New(f))

\* C5 amended: when the keys of the N records are pairwise distinct, no chunk
\* of the call was abandoned and no other call stored one of those keys in
\* the meantime, the rows added by chunked_insert are exactly the records
\* whose key was not in the store when the call began (N-1 rows when exactly
\* one was); conflicting records are discarded and the call never raises.
C5_AddsNewKeys ==
    \A f \in FileIds :
        /\ ( /\ Returned(f)
             /\ abandoned[f] = {}
             /\ Cardinality(Keys(recs[f])) = Len(recs[f])
             /\ \A row \in store :
                   <<row.rec.norad_id, row.rec.epoch>> \in Keys(recs[f]) \ pre[f]
                       => row.src = Src(f) )
           => /\ {row.rec : row \in AddedBy(f)} = {recs[f][k] : k \in New(f)}
              /\ Cardinality(AddedBy(f)) = Cardinality(New(f))
              /\ Cardinality(Old(f)) = 1 => Cardinality(AddedBy(f)) = Len(recs[f]) - 1
        /\ (InDirectory /\ wpc[f] = "raised") => (recs[f] = <<>> /\ inserted[f] = {})

\* C5 witness: a call with two or more records, exactly one of them stored
\* before the call began by another call, has returned having added the rest.
C5_Witness ==
    \E f \in FileIds :
        /\ Returned(f) /\ abandoned[f] = {}
        /\ Len(recs[f]) >= 2
        /\ Cardinality(Keys(recs[f])) = Len(recs[f])
        /\ Cardinality(Old(f)) = 1
        /\ Cardinality(AddedBy(f)) = Len(recs[f]) - 1
        /\ \A row \in store :
              <<row.rec.norad_id, row.rec.epoch>> \in Keys(recs[f]) \ pre[f]
                  => row.src = Src(f)

\* C6: a chunk whose insert fails is attempted at most max_retries times,
\* every failed attempt is followed by a sleep of retry_delay; when all
\* attempts have failed the chunk is abandoned, the next chunk of the same
\* call is attempted, and chunked_insert does not raise: once it has returned
\* every chunk was either inserted or abandoned.
C6_RetryThenAbandon ==
    [][ /\ stmt'.f # 0 =>
              /\ wpc[stmt'.f] = "insert"
              /\ stmt'.i = ci[stmt'.f]
              /\ attempts[stmt'.f] < max_retries
              /\ stmt'.ok => (wslept' = 0 /\ stmt'.i \in inserted'[stmt'.f])
              /\ ~stmt'.ok =>
                    /\ wslept' = retry_delay
                    /\ store' = store
                    /\ stmt'.i \in abandoned'[stmt'.f]
                          <=> attempts[stmt'.f] + 1 = max_retries
                    /\ stmt'.i \notin abandoned'[stmt'.f] =>
                          /\ attempts'[stmt'.f] = attempts[stmt'.f] + 1
                          /\ ci'[stmt'.f] = ci[stmt'.f]
                          /\ wpc'[stmt'.f] = "insert"
                    /\ stmt'.i \in abandoned'[stmt'.f] =>
                          IF stmt'.i + chunk_size < Len(recs[stmt'.f])
                          THEN /\ wpc'[stmt'.f] = "insert"
                               /\ ci'[stmt'.f] = stmt'.i + chunk_size
                               /\ attempts'[stmt'.f] = 0
                          ELSE wpc'[stmt'.f] = "done"
        /\ \A f \in DOMAIN wpc' :
              /\ wpc'[f] = "raised" => (recs'[f] = <<>> /\ abandoned'[f] = {})
              /\ inserted'[f] \cap abandoned'[f] = {}
              /\ (wpc'[f] = "done" /\ recs'[f] # <<>>) =>
                    inserted'[f] \cup abandoned'[f]
                        = {i \in 0..(Len(recs'[f]) - 1) : i % chunk_size = 0} ]_vars

\* C6 witness: a call has abandoned a chunk after max_retries failures and
\* has then inserted a later chunk.
C6_Witness ==
    \E f \in FileIds :
        \E a \in abandoned[f], b \in inserted[f] : b > a /\ wpc[f] = "done"

\* C7: every record yielded by parse_tle_file has its derived fields x, y,
\* z, vx, vy, vz, velocity_kms, altitude_km all null or all non-null; a pair
\* for which the propagator returns a non-zero error code is still yielded,
\* with all of them null, and handed to chunked_insert.
C7_JointlyNull ==
    \A f \in FileIds :
        Parsed(f) =>
            /\ \A j \in DOMAIN recs[f] :
                  /\ AllNull(recs[f][j]) \/ NoneNull(recs[f][j])
                  /\ AllNull(recs[f][j]) <=> recs[f][j].tle_line2.err # 0
            /\ \A k \in Keyed(f) :
                  (Second(f, k).err # 0 /\ KeyOf(f, k) \notin existing_tles) =>
                      \E j \in DOMAIN recs[f] :
                          /\ recs[f][j].tle_line1 = First(f, k)
                          /\ recs[f][j].tle_line2 = Second(f, k)
                          /\ AllNull(recs[f][j])

\* C7 witness: a file gave a record with every derived field null and a
\* record with every derived field set, and the null record is stored.
C7_Witness ==
    /\ \E f \in FileIds :
          /\ Parsed(f)
          /\ \E i, j \in DOMAIN recs[f] : AllNull(recs[f][i]) /\ NoneNull(recs[f][j])
    /\ \E row \in store : AllNull(row.rec) /\ row.rec.tle_line2.err # 0

\* C8: for every pair of lines whose (norad_id, epoch) is in the index given
\* to parse_tle_file, sat.sgp4 is not called and no record is yielded; every
\* pair whose key is not in the index is propagated and yielded.
C8_KnownSkipped ==
    \A f \in FileIds :
        Parsed(f) =>
            /\ \A k \in Keyed(f) :
                  IF KeyOf(f, k) \in existing_tles
                  THEN /\ k \notin sgp4_calls[f]
                       /\ KeyOf(f, k) \notin Keys(recs[f])
                  ELSE /\ k \in sgp4_calls[f]
                       /\ \E j \in DOMAIN recs[f] :
                             /\ recs[f][j].tle_line1 = First(f, k)
                             /\ recs[f][j].tle_line2 = Second(f, k)
            /\ sgp4_calls[f] \subseteq Keyed(f)
            /\ Len(recs[f]) = Cardinality(sgp4_calls[f])

\* C8 witness: a file was parsed against a non-empty index that holds the key
\* of one of its pairs, which was skipped, and not the key of another, which
\* was propagated and yielded.
C8_Witness ==
    \E f \in FileIds :
        /\ Parsed(f) /\ existing_tles # {}
        /\ \E k1, k2 \in Keyed(f) :
              /\ KeyOf(f, k1) \in existing_tles /\ k1 \notin sgp4_calls[f]
              /\ KeyOf(f, k2) \notin existing_tles /\ k2 \in sgp4_calls[f]
              /\ KeyOf(f, k2) \in Keys(recs[f])

\* the records parsed from a first line that gives jd = 2460310, fr = 0.5
AtNoon2460310 ==
    UNION { {recs[f][k] : k \in {j \in DOMAIN recs[f] :
                recs[f][j].tle_line1.jdH = 4920620
                /\ recs[f][j].tle_line1.frS = 43200}} : f \in FileIds }

\* C16 as stated: jd = 2460310, fr = 0.5 is converted to the instant
\* 2024-01-15T12:00:00Z.
C16_Original ==
    \A r \in AtNoon2460310 :
        utcfromtimestamp(r.epoch)
            = [year |-> 2024, month |-> 1, day |-> 15,
               hour |-> 12, minute |-> 0, second |-> 0]

\* C16 (amended): (jd + fr - 2440587.5) * 86400 applied to jd = 2460310,
\* fr = 0.5 is 1704067200 seconds, the instant 2024-01-01T00:00:00Z, exact to
\* the second.
C16_EpochInstant ==
    \A r \in AtNoon2460310 :
        /\ r.epoch = 1704067200
        /\ utcfromtimestamp(r.epoch)
              = [year |-> 2024, month |-> 1, day |-> 1,
                 hour |-> 0, minute |-> 0, second |-> 0]

\* C16 witness: a record was parsed from a line with jd = 2460310, fr = 0.5
\* and is stored under the epoch 1704067200
C16_Witness ==
    /\ AtNoon2460310 # {}
    /\ \E row \in store :
          /\ row.rec.tle_line1.jdH = 4920620 /\ row.rec.tle_line1.frS = 43200
          /\ row.rec.epoch = 1704067200

\* the pairs parse_tle_file visited in file f, in order
Visits(f) == SelectSeq(events[f], LAMBDA e : e.pair # 0)
Lines(f) == Directory(mpc)[f]

\* C17: of a file of n lines parse_tle_file visits exactly floor(n/2) pairs,
\* the k-th being lines 2k-1 and 2k counted from 1; when n is odd it warns
\* and the last line is in no pair and no record, and the file's task does not
\* fail; when every pair has an id, parses and is not in the index, exactly
\* floor(n/2) records, one per pair in order, are handed to chunked_insert.
C17_PairsOfLines ==
    \A f \in FileIds :
        Parsed(f) =>
            /\ Len(Visits(f)) = Len(Lines(f)) \div 2
            /\ \A k \in DOMAIN Visits(f) : Visits(f)[k].pair = k
            /\ Len(Lines(f)) % 2 = 1
                  => /\ events[f][1] = [pair |-> 0, what |-> "odd_warning"]
                     /\ \A j \in DOMAIN recs[f] :
                           /\ recs[f][j].tle_line1 # Lines(f)[Len(Lines(f))]
                           /\ recs[f][j].tle_line2 # Lines(f)[Len(Lines(f))]
            /\ Len(Lines(f)) % 2 = 0 => Len(events[f]) = Len(Visits(f))
            /\ (\A k \in PairsIn(f) : k \in Keyed(f) /\ KeyOf(f, k) \notin existing_tles)
                  => /\ Len(recs[f]) = Len(Lines(f)) \div 2
                     /\ \A k \in PairsIn(f) :
                           /\ recs[f][k].tle_line1 = Lines(f)[2 * k - 1]
                           /\ recs[f][k].tle_line2 = Lines(f)[2 * k]
                     /\ wpc[f] = "done"
                           => inserted[f] \cup abandoned[f] = ChunkStarts(f)

\* C17 witness: a file of seven lines, every pair with an id, parsed and not
\* in the index, gave three records whose chunks were all inserted, after
\* the warning about the odd number of lines.
C17_Witness ==
    /\ mpc = "active"
    /\ \E f \in FileIds :
          /\ wpc[f] = "done" /\ Len(Lines(f)) = 7
          /\ \A k \in PairsIn(f) : k \in Keyed(f) /\ KeyOf(f, k) \notin existing_tles
          /\ Len(recs[f]) = 3 /\ inserted[f] = ChunkStarts(f)
          /\ events[f][1].what = "odd_warning"

\* the pairs of file f, in file order, that have an id and that twoline2rv
\* accepts; and those of them whose key is not in the index
GoodPairs(f) ==
    SelectSeq([k \in PairsIn(f) |-> k], LAMBDA k : k \in Keyed(f))
GoodNewPairs(f) ==
    SelectSeq([k \in PairsIn(f) |-> k],
              LAMBDA k : k \in Keyed(f) /\ KeyOf(f, k) \notin existing_tles)
\* the records of file f are those of the pairs ks, in that order
RecordsAre(f, ks) ==
    /\ Len(recs[f]) = Len(ks)
    /\ \A j \in DOMAIN ks :
          /\ recs[f][j].tle_line1 = Lines(f)[2 * ks[j] - 1]
          /\ recs[f][j].tle_line2 = Lines(f)[2 * ks[j]]
\* a pair without id or that raises is passed over, and every pair of the
\* file is visited whatever became of the pairs before it
BadPairsSkipped(f) ==
    /\ Len(Visits(f)) = Len(Lines(f)) \div 2
    /\ \A k \in PairsIn(f) \ Keyed(f) :
          /\ Visits(f)[k].what \in {"no_id", "raised"}
          /\ k \notin sgp4_calls[f]

\* C18 as stated: pairs without id or that raise are skipped, later pairs
\* are still processed, and the records yielded for a file are exactly those
\* of its good pairs, in file order.
C18_Original ==
    \A f \in FileIds :
        Parsed(f) => (BadPairsSkipped(f) /\ RecordsAre(f, GoodPairs(f)))

\* C18 (amended): pairs without id or that raise are skipped, later pairs are
\* still processed, and the records yielded for a file are exactly those of
\* its good pairs whose (norad_id, epoch) is not in the index given to
\* parse_tle_file, in file order.
C18_GoodNewPairsYielded ==
    \A f \in FileIds :
        Parsed(f) => (BadPairsSkipped(f) /\ RecordsAre(f, GoodNewPairs(f)))

\* C18 witness: in one file a pair without id was passed over, the next pair
\* gave the file's only record, and a later pair that raised was passed over.
C18_Witness ==
    \E f \in FileIds :
        /\ Parsed(f) /\ Len(recs[f]) = 1
        /\ \E k1, k2, k3 \in PairsIn(f) :
              /\ k1 < k2 /\ k2 < k3
              /\ Visits(f)[k1].what = "no_id"
              /\ Visits(f)[k2].what = "propagated"
              /\ Visits(f)[k3].what = "raised"
              /\ recs[f][1].tle_line1 = Lines(f)[2 * k2 - 1]

\* C19: batch_insert_tle_from_directory gives every file of the directory
\* one task, which is started once and never again; a task that ends with an
\* exception leaves the other tasks able to start and to run to their end,
\* and the function returns, to a caller that goes on, only when every task
\* has ended, with or without exception.
C19_OneTaskPerFile ==
    [][ /\ InDirectory =>
              /\ FileIds = 1..Len(Directory(mpc))
              /\ (\E f \in FileIds : wpc[f] \notin {"done", "raised"})
                    => \E f \in FileIds :
                          \/ wpc[f] = "insert"
                          \/ /\ wpc[f] = "queued"
                             /\ Cardinality({g \in FileIds : wpc[g] = "insert"})
                                   < max_workers
        /\ (InDirectory /\ mpc' = mpc) =>
              \A f \in FileIds :
                  /\ wpc'[f] = "queued" => wpc[f] = "queued"
                  /\ wpc[f] \in {"done", "raised"} => wpc'[f] = wpc[f]
                  /\ wpc[f] # "queued" =>
                        (recs'[f] = recs[f] /\ events'[f] = events[f])
                  /\ wpc'[f] # wpc[f] => \A g \in FileIds \ {f} : wpc'[g] = wpc[g]
        /\ (InDirectory /\ mpc' # mpc) =>
              /\ \A f \in FileIds : wpc[f] \in {"done", "raised"}
              /\ mpc' = IF mpc = "active" THEN "inactive" ELSE "done" ]_vars

\* C19 witness: the task of one file ended with an exception and the tasks of
\* all other files of the directory have parsed their file and inserted every
\* chunk.
C19_Witness ==
    /\ mpc = "active"
    /\ \E f \in FileIds :
          /\ wpc[f] = "raised"
          /\ \A g \in FileIds \ {f} :
                /\ wpc[g] = "done" /\ recs[g] # <<>>
                /\ inserted[g] = ChunkStarts(g)

\* the rows of the store with key K, and the chunks of file f (by their first
\* index) that hold a record with key K
RowsOf(K) == {row \in store : <<row.rec.norad_id, row.rec.epoch>> = K}
ChunksOf(f, K) ==
    {i \in ChunkStarts(f) :
        \E k \in DOMAIN recs[f] :
            /\ i < k /\ k <= i + chunk_size
            /\ <<recs[f][k].norad_id, recs[f][k].epoch>> = K}
\* the index is as it was loaded: it changes only when __main__ loads it and
\* is the same for the two directories
SnapshotKept ==
    /\ mpc = "main" => existing_tles' = StoreKeys
    /\ InDirectory => existing_tles' = existing_tles
\* every pair of file f with a key that is not in the index is propagated and
\* becomes a record, whatever the store holds by then; once the call for f
\* has returned, every chunk holding the key was attempted
PropagatedAndAttempted(f) ==
    \A k \in Keyed(f) :
        KeyOf(f, k) \notin existing_tles
        => /\ k \in sgp4_calls[f]
           /\ KeyOf(f, k) \in Keys(recs[f])
           /\ wpc[f] = "done"
              => /\ ChunksOf(f, KeyOf(f, k)) # {}
                 /\ ChunksOf(f, KeyOf(f, k)) \subseteq inserted[f] \cup abandoned[f]
\* two different files of the directory at hand hold key K
SharedKeys(f, g) ==
    {K \in Keys(recs[f]) \cap Keys(recs[g]) : f # g /\ K \notin existing_tles}

\* C22 as stated: the index loaded by fetch_existing_tles is not modified
\* during the run and is the same for both directories; when two files of a
\* run hold a record with the same key that is not in the index, both calls
\* propagate it and attempt to insert it, and once both have returned the
\* store holds exactly one row with that key.
C22_Original ==
    /\ [][SnapshotKept]_vars
    /\ [](\A f \in FileIds : Parsed(f) => PropagatedAndAttempted(f))
    /\ [](\A f, g \in FileIds :
            (Returned(f) /\ Returned(g))
            => \A K \in SharedKeys(f, g) : Cardinality(RowsOf(K)) = 1)

\* C22 (amended): the same, except that the store then holds at most one row
\* with that key: exactly one as soon as one of the chunks holding it has
\* been committed, and possibly none when every such chunk was abandoned
\* after max_retries failed attempts.
C22_SnapshotNotRefreshed ==
    /\ [][SnapshotKept]_vars
    /\ [](\A f \in FileIds : Parsed(f) => PropagatedAndAttempted(f))
    /\ [](\A f, g \in FileIds :
            (Parsed(f) /\ Parsed(g))
            => \A K \in SharedKeys(f, g) :
                  /\ Cardinality(RowsOf(K)) <= 1
                  /\ (ChunksOf(f, K) \cap inserted[f] # {}
                      \/ ChunksOf(g, K) \cap inserted[g] # {})
                     => Cardinality(RowsOf(K)) = 1)

\* two calls of the first run have returned, each having propagated a record
\* with the same key, which the index does not hold, and each having
\* committed the chunk that holds it; the store has one row with that key,
\* added by one of the two
C22_Witness ==
    \E f, g \in FileIds :
        /\ irun = 1 /\ Returned(f) /\ Returned(g)
        /\ \E K \in SharedKeys(f, g) :
              /\ ChunksOf(f, K) \subseteq inserted[f]
              /\ ChunksOf(g, K) \subseteq inserted[g]
              /\ Cardinality(RowsOf(K)) = 1
              /\ \E row \in RowsOf(K) : row.src \in {Src(f), Src(g)}

\* C24: a row of the store never changes and never disappears, whatever
\* statement is executed by whatever file, directory or run: an insert that
\* conflicts with it on (norad_id, epoch) leaves its is_active flag, its
\* derived fields and everything else as they were; and every row a statement
\* adds holds a record of the statement's chunk with the flag of the
\* directory being read (true for the active one, false for the inactive).
C24_RowsKeepTheirLabel ==
    [][ /\ \A row \in store : row \in store'
        /\ \A row \in store' \ store :
              /\ stmt'.f # 0 /\ stmt'.ok /\ InDirectory
              /\ row.src = Src(stmt'.f)
              /\ row.rec.is_active = (mpc = "active")
              /\ \E k \in DOMAIN recs[stmt'.f] :
                    /\ stmt'.i < k /\ k <= stmt'.i + chunk_size
                    /\ row.rec = recs[stmt'.f][k] ]_vars

\* a statement of the inactive directory has been committed whose chunk held
\* a record with the key of a row added from the active directory; the row is
\* still labelled active and has the fields it was added with
C24_Witness ==
    /\ mpc = "inactive" /\ stmt.f # 0 /\ stmt.ok
    /\ \E k \in DOMAIN recs[stmt.f] :
          /\ stmt.i < k /\ k <= stmt.i + chunk_size
          /\ ~recs[stmt.f][k].is_active
          /\ \E row \in store :
                /\ row.rec.norad_id = recs[stmt.f][k].norad_id
                /\ row.rec.epoch = recs[stmt.f][k].epoch
                /\ row.src[2] = "active" /\ row.rec.is_active

====
